---- MODULE Spec2Model ----
(***************************************************************************)
(* Nextcloud storage driver (pkg/storage/fs/nextcloud) and the Nextcloud   *)
(* server mock that stands in for the remote service.                      *)
(*                                                                         *)
(* The mock is the handler returned by GetNextcloudServerMock: it keys a   *)
(* table of canned responses by the text "METHOD URL BODY", optionally     *)
(* followed by the package-level serverState, and overwrites serverState   *)
(* with the matched entry's newServerState.  The adapter is the nextcloud  *)
(* struct of nextcloud.go, whose operations all go through do().           *)
(***************************************************************************)
EXTENDS Integers, Sequences, FiniteSets, TLC

(***************************************************************************)
(* Bounds of the model.                                                    *)
(***************************************************************************)
\* number of handlers obtained from separate GetNextcloudServerMock calls
NumHandlers == 2
\* total number of requests received by all handlers together
MaxCalls == 3
\* number of adapter operations called
MaxOps == 2

Handlers == 1..NumHandlers

(***************************************************************************)
(* Server states (const block of the mock).                                *)
(***************************************************************************)
serverStateError == "ERROR"
serverStateEmpty == "EMPTY"
serverStateHome == "HOME"
serverStateSubdir == "SUBDIR"
serverStateNewdir == "NEWDIR"
serverStateSubdirNewdir == "SUBDIR-NEWDIR"
serverStateFileRestored == "FILE-RESTORED"
serverStateGrantAdded == "GRANT-ADDED"
serverStateGrantUpdated == "GRANT-UPDATED"
serverStateRecycle == "RECYCLE"
serverStateReference == "REFERENCE"
serverStateMetadata == "METADATA"

\* type Response struct { code int; body string; newServerState string }
Response(code, body, newServerState) ==
  [code |-> code, body |-> body, newServerState |-> newServerState]

\* Response{}: the zero value, which a Go map returns for a missing key
ZeroResponse == Response(0, "", "")

(***************************************************************************)
(* var responses = map[string]Response{ ... }                              *)
(***************************************************************************)
responses ==
     "POST /apps/sciencemesh/~einstein/api/AddGrant {\"path\":\"/subdir\"}" :> Response(200, "", serverStateGrantAdded)
  @@ "POST /apps/sciencemesh/~einstein/api/CreateDir {\"path\":\"/subdir\"} EMPTY" :> Response(200, "", serverStateSubdir)
  @@ "POST /apps/sciencemesh/~einstein/api/CreateDir {\"path\":\"/subdir\"} HOME" :> Response(200, "", serverStateSubdir)
  @@ "POST /apps/sciencemesh/~einstein/api/CreateDir {\"path\":\"/subdir\"} NEWDIR" :> Response(200, "", serverStateSubdirNewdir)
  @@ "POST /apps/sciencemesh/~einstein/api/CreateDir {\"path\":\"/newdir\"} EMPTY" :> Response(200, "", serverStateNewdir)
  @@ "POST /apps/sciencemesh/~einstein/api/CreateDir {\"path\":\"/newdir\"} HOME" :> Response(200, "", serverStateNewdir)
  @@ "POST /apps/sciencemesh/~einstein/api/CreateDir {\"path\":\"/newdir\"} SUBDIR" :> Response(200, "", serverStateSubdirNewdir)
  @@ "POST /apps/sciencemesh/~einstein/api/CreateHome " :> Response(200, "", serverStateHome)
  @@ "POST /apps/sciencemesh/~einstein/api/CreateHome {}" :> Response(200, "", serverStateHome)
  @@ "POST /apps/sciencemesh/~einstein/api/CreateReference {\"path\":\"/Shares/reference\"}" :> Response(200, "[]", serverStateReference)
  @@ "POST /apps/sciencemesh/~einstein/api/Delete {\"path\":\"/subdir\"}" :> Response(200, "", serverStateRecycle)
  @@ "POST /apps/sciencemesh/~einstein/api/EmptyRecycle " :> Response(200, "", serverStateEmpty)
  @@ "POST /apps/sciencemesh/~einstein/api/GetMD {\"path\":\"/\"} EMPTY" :> Response(404, "", serverStateEmpty)
  @@ "POST /apps/sciencemesh/~einstein/api/GetMD {\"path\":\"/\"} HOME" :> Response(200, "{ \"size\": 1 }", serverStateHome)
  @@ "POST /apps/sciencemesh/~einstein/api/GetMD {\"path\":\"/newdir\"} EMPTY" :> Response(404, "", serverStateEmpty)
  @@ "POST /apps/sciencemesh/~einstein/api/GetMD {\"path\":\"/newdir\"} HOME" :> Response(404, "", serverStateHome)
  @@ "POST /apps/sciencemesh/~einstein/api/GetMD {\"path\":\"/newdir\"} SUBDIR" :> Response(404, "", serverStateSubdir)
  @@ "POST /apps/sciencemesh/~einstein/api/GetMD {\"path\":\"/newdir\"} NEWDIR" :> Response(200, "{ \"size\": 1 }", serverStateNewdir)
  @@ "POST /apps/sciencemesh/~einstein/api/GetMD {\"path\":\"/newdir\"} SUBDIR-NEWDIR" :> Response(200, "{ \"size\": 1 }", serverStateSubdirNewdir)
  @@ "POST /apps/sciencemesh/~einstein/api/GetMD {\"path\":\"/new_subdir\"}" :> Response(200, "{ \"size\": 1 }", serverStateEmpty)
  @@ "POST /apps/sciencemesh/~einstein/api/GetMD {\"path\":\"/subdir\"} EMPTY" :> Response(404, "", serverStateEmpty)
  @@ "POST /apps/sciencemesh/~einstein/api/GetMD {\"path\":\"/subdir\"} HOME" :> Response(404, "", serverStateEmpty)
  @@ "POST /apps/sciencemesh/~einstein/api/GetMD {\"path\":\"/subdir\"} NEWDIR" :> Response(404, "", serverStateEmpty)
  @@ "POST /apps/sciencemesh/~einstein/api/GetMD {\"path\":\"/subdir\"} RECYCLE" :> Response(404, "", serverStateRecycle)
  @@ "POST /apps/sciencemesh/~einstein/api/GetMD {\"path\":\"/subdir\"} SUBDIR" :> Response(200, "{ \"size\": 1 }", serverStateEmpty)
  @@ "POST /apps/sciencemesh/~einstein/api/GetMD {\"path\":\"/subdir\"} SUBDIR-NEWDIR" :> Response(200, "{ \"size\": 1 }", serverStateEmpty)
  @@ "POST /apps/sciencemesh/~einstein/api/GetMD {\"path\":\"/subdir\"} METADATA" :> Response(200, "{ \"size\": 1, \"metadata\": { \"foo\": \"bar\" } }", serverStateMetadata)
  @@ "POST /apps/sciencemesh/~einstein/api/GetMD {\"path\":\"/subdirRestored\"} EMPTY" :> Response(404, "", serverStateEmpty)
  @@ "POST /apps/sciencemesh/~einstein/api/GetMD {\"path\":\"/subdirRestored\"} RECYCLE" :> Response(404, "", serverStateRecycle)
  @@ "POST /apps/sciencemesh/~einstein/api/GetMD {\"path\":\"/subdirRestored\"} SUBDIR" :> Response(404, "", serverStateSubdir)
  @@ "POST /apps/sciencemesh/~einstein/api/GetMD {\"path\":\"/subdirRestored\"} FILE-RESTORED" :> Response(200, "{ \"size\": 1 }", serverStateFileRestored)
  @@ "POST /apps/sciencemesh/~einstein/api/GetMD {\"path\":\"/versionedFile\"} EMPTY" :> Response(200, "{ \"size\": 2 }", serverStateEmpty)
  @@ "POST /apps/sciencemesh/~einstein/api/GetMD {\"path\":\"/versionedFile\"} FILE-RESTORED" :> Response(200, "{ \"size\": 1 }", serverStateFileRestored)
  @@ "POST /apps/sciencemesh/~einstein/api/GetPathByID {\"storage_id\":\"00000000-0000-0000-0000-000000000000\",\"opaque_id\":\"fileid-%2Fsubdir\"}" :> Response(200, "/subdir", serverStateEmpty)
  @@ "POST /apps/sciencemesh/~einstein/api/InitiateUpload {\"path\":\"/file\"}" :> Response(200, "{\"simple\": \"yes\",\"tus\": \"yes\"}", serverStateEmpty)
  @@ "POST /apps/sciencemesh/~einstein/api/ListFolder {\"path\":\"/\"}" :> Response(200, "[\"/subdir\"]", serverStateEmpty)
  @@ "POST /apps/sciencemesh/~einstein/api/ListFolder {\"path\":\"/Shares\"} EMPTY" :> Response(404, "", serverStateEmpty)
  @@ "POST /apps/sciencemesh/~einstein/api/ListFolder {\"path\":\"/Shares\"} SUBDIR" :> Response(404, "", serverStateSubdir)
  @@ "POST /apps/sciencemesh/~einstein/api/ListFolder {\"path\":\"/Shares\"} REFERENCE" :> Response(200, "[\"reference\"]", serverStateReference)
  @@ "POST /apps/sciencemesh/~einstein/api/ListGrants {\"path\":\"/subdir\"} SUBDIR" :> Response(200, "[]", serverStateEmpty)
  @@ "POST /apps/sciencemesh/~einstein/api/ListGrants {\"path\":\"/subdir\"} GRANT-ADDED" :> Response(200, "[ { \"stat\": true, \"move\": true, \"delete\": false } ]", serverStateEmpty)
  @@ "POST /apps/sciencemesh/~einstein/api/ListGrants {\"path\":\"/subdir\"} GRANT-UPDATED" :> Response(200, "[ { \"stat\": true, \"move\": true, \"delete\": true } ]", serverStateEmpty)
  @@ "POST /apps/sciencemesh/~einstein/api/ListRecycle  EMPTY" :> Response(200, "[]", serverStateEmpty)
  @@ "POST /apps/sciencemesh/~einstein/api/ListRecycle  RECYCLE" :> Response(200, "[\"/subdir\"]", serverStateRecycle)
  @@ "POST /apps/sciencemesh/~einstein/api/ListRevisions {\"path\":\"/versionedFile\"} EMPTY" :> Response(500, "[1]", serverStateEmpty)
  @@ "POST /apps/sciencemesh/~einstein/api/ListRevisions {\"path\":\"/versionedFile\"} FILE-RESTORED" :> Response(500, "[1, 2]", serverStateFileRestored)
  @@ "POST /apps/sciencemesh/~einstein/api/Move {\"from\":\"/subdir\",\"to\":\"/new_subdir\"}" :> Response(200, "", serverStateEmpty)
  @@ "POST /apps/sciencemesh/~einstein/api/RemoveGrant {\"path\":\"/subdir\"} GRANT-ADDED" :> Response(200, "", serverStateGrantUpdated)
  @@ "POST /apps/sciencemesh/~einstein/api/RestoreRecycleItem null" :> Response(200, "", serverStateSubdir)
  @@ "POST /apps/sciencemesh/~einstein/api/RestoreRecycleItem {\"path\":\"/subdirRestored\"}" :> Response(200, "", serverStateFileRestored)
  @@ "POST /apps/sciencemesh/~einstein/api/RestoreRevision {\"path\":\"/versionedFile\"}" :> Response(200, "", serverStateFileRestored)
  @@ "POST /apps/sciencemesh/~einstein/api/SetArbitraryMetadata {\"metadata\":{\"foo\":\"bar\"}}" :> Response(200, "", serverStateMetadata)
  @@ "POST /apps/sciencemesh/~einstein/api/UnsetArbitraryMetadata {\"path\":\"/subdir\"}" :> Response(200, "", serverStateSubdir)
  @@ "POST /apps/sciencemesh/~einstein/api/UpdateGrant {\"path\":\"/subdir\"}" :> Response(200, "", serverStateGrantUpdated)
  @@ "POST /apps/sciencemesh/~tester/api/GetHome " :> Response(200, "yes we are", serverStateHome)
  @@ "POST /apps/sciencemesh/~tester/api/CreateHome " :> Response(201, "", serverStateEmpty)
  @@ "POST /apps/sciencemesh/~tester/api/CreateDir {\"resource_id\":{\"storage_id\":\"storage-id\",\"opaque_id\":\"opaque-id\"},\"path\":\"/some/path\"}" :> Response(201, "", serverStateEmpty)
  @@ "POST /apps/sciencemesh/~tester/api/Delete {\"resource_id\":{\"storage_id\":\"storage-id\",\"opaque_id\":\"opaque-id\"},\"path\":\"/some/path\"}" :> Response(200, "", serverStateEmpty)
  @@ "POST /apps/sciencemesh/~tester/api/Move {\"oldRef\":{\"resource_id\":{\"storage_id\":\"storage-id-1\",\"opaque_id\":\"opaque-id-1\"},\"path\":\"/some/old/path\"},\"newRef\":{\"resource_id\":{\"storage_id\":\"storage-id-2\",\"opaque_id\":\"opaque-id-2\"},\"path\":\"/some/new/path\"}}" :> Response(200, "", serverStateEmpty)
  @@ "POST /apps/sciencemesh/~tester/api/GetMD {\"ref\":{\"resource_id\":{\"storage_id\":\"storage-id\",\"opaque_id\":\"opaque-id\"},\"path\":\"/some/path\"},\"mdKeys\":[\"val1\",\"val2\",\"val3\"]}" :> Response(200, "{\"opaque\":{},\"type\":1,\"id\":{\"opaque_id\":\"fileid-/some/path\"},\"checksum\":{},\"etag\":\"deadbeef\",\"mime_type\":\"text/plain\",\"mtime\":{\"seconds\":1234567890},\"path\":\"/some/path\",\"permission_set\":{},\"size\":12345,\"canonical_metadata\":{},\"arbitrary_metadata\":{\"metadata\":{\"da\":\"ta\",\"some\":\"arbi\",\"trary\":\"meta\"}}}", serverStateEmpty)
  @@ "POST /apps/sciencemesh/~tester/api/ListFolder {\"ref\":{\"resource_id\":{\"storage_id\":\"storage-id\",\"opaque_id\":\"opaque-id\"},\"path\":\"/some/path\"},\"mdKeys\":[\"val1\",\"val2\",\"val3\"]}" :> Response(200, "[{\"opaque\":{},\"type\":1,\"id\":{\"opaque_id\":\"fileid-/some/path\"},\"checksum\":{},\"etag\":\"deadbeef\",\"mime_type\":\"text/plain\",\"mtime\":{\"seconds\":1234567890},\"path\":\"/some/path\",\"permission_set\":{},\"size\":12345,\"canonical_metadata\":{},\"arbitrary_metadata\":{\"metadata\":{\"da\":\"ta\",\"some\":\"arbi\",\"trary\":\"meta\"}}}]", serverStateEmpty)
  @@ "POST /apps/sciencemesh/~tester/api/InitiateUpload {\"ref\":{\"resource_id\":{\"storage_id\":\"storage-id\",\"opaque_id\":\"opaque-id\"},\"path\":\"/some/path\"},\"uploadLength\":12345,\"metadata\":{\"key1\":\"val1\",\"key2\":\"val2\",\"key3\":\"val3\"}}" :> Response(200, "{ \"not\":\"sure\", \"what\": \"should be\", \"returned\": \"here\" }", serverStateEmpty)
  @@ "PUT /apps/sciencemesh/~tester/api/Upload/some/file/path.txt shiny!" :> Response(200, "", serverStateEmpty)
  @@ "GET /apps/sciencemesh/~tester/api/Download/some/file/path.txt " :> Response(200, "the contents of the file", serverStateEmpty)
  @@ "POST /apps/sciencemesh/~tester/api/ListRevisions {\"resource_id\":{\"storage_id\":\"storage-id\",\"opaque_id\":\"opaque-id\"},\"path\":\"/some/path\"}" :> Response(200, "[{\"opaque\":{\"map\":{\"some\":{\"value\":\"ZGF0YQ==\"}}},\"key\":\"version-12\",\"size\":12345,\"mtime\":1234567890,\"etag\":\"deadb00f\"},{\"opaque\":{\"map\":{\"different\":{\"value\":\"c3R1ZmY=\"}}},\"key\":\"asdf\",\"size\":12345,\"mtime\":1234567890,\"etag\":\"deadbeef\"}]", serverStateEmpty)
  @@ "GET /apps/sciencemesh/~tester/api/DownloadRevision/some%2Frevision/some/file/path.txt " :> Response(200, "the contents of that revision", serverStateEmpty)
  @@ "POST /apps/sciencemesh/~tester/api/RestoreRevision {\"ref\":{\"resource_id\":{\"storage_id\":\"storage-id\",\"opaque_id\":\"opaque-id\"},\"path\":\"some/file/path.txt\"},\"key\":\"asdf\"}" :> Response(200, "", serverStateEmpty)
  @@ "POST /apps/sciencemesh/~tester/api/ListRecycle {\"key\":\"asdf\",\"path\":\"/some/file.txt\"}" :> Response(200, "[{\"opaque\":{},\"key\":\"some-deleted-version\",\"ref\":{\"resource_id\":{},\"path\":\"/some/file.txt\"},\"size\":12345,\"deletion_time\":{\"seconds\":1234567890}}]", serverStateEmpty)
  @@ "POST /apps/sciencemesh/~tester/api/RestoreRecycleItem {\"key\":\"asdf\",\"path\":\"original/location/when/deleted.txt\",\"restoreRef\":{\"resource_id\":{\"storage_id\":\"storage-id\",\"opaque_id\":\"opaque-id\"},\"path\":\"some/file/path.txt\"}}" :> Response(200, "", serverStateEmpty)
  @@ "POST /apps/sciencemesh/~tester/api/PurgeRecycleItem {\"key\":\"asdf\",\"path\":\"original/location/when/deleted.txt\"}" :> Response(200, "", serverStateEmpty)
  @@ "POST /apps/sciencemesh/~tester/api/EmptyRecycle " :> Response(200, "", serverStateEmpty)
  @@ "POST /apps/sciencemesh/~tester/api/GetPathByID {\"storage_id\":\"storage-id\",\"opaque_id\":\"opaque-id\"}" :> Response(200, "the/path/for/that/id.txt", serverStateEmpty)
  @@ "POST /apps/sciencemesh/~tester/api/AddGrant {\"ref\":{\"resource_id\":{\"storage_id\":\"storage-id\",\"opaque_id\":\"opaque-id\"},\"path\":\"some/file/path.txt\"},\"g\":{\"grantee\":{\"Id\":{\"UserId\":{\"idp\":\"0.0.0.0:19000\",\"opaque_id\":\"f7fbf8c8-139b-4376-b307-cf0a8c2d0d9c\",\"type\":1}}},\"permissions\":{\"add_grant\":true,\"create_container\":true,\"delete\":true,\"get_path\":true,\"get_quota\":true,\"initiate_file_download\":true,\"initiate_file_upload\":true,\"list_grants\":true,\"list_container\":true,\"list_file_versions\":true,\"list_recycle\":true,\"move\":true,\"remove_grant\":true,\"purge_recycle\":true,\"restore_file_version\":true,\"restore_recycle_item\":true,\"stat\":true,\"update_grant\":true,\"deny_grant\":true}}}" :> Response(200, "", serverStateEmpty)
  @@ "POST /apps/sciencemesh/~tester/api/DenyGrant {\"ref\":{\"resource_id\":{\"storage_id\":\"storage-id\",\"opaque_id\":\"opaque-id\"},\"path\":\"some/file/path.txt\"},\"g\":{\"Id\":{\"UserId\":{\"idp\":\"0.0.0.0:19000\",\"opaque_id\":\"f7fbf8c8-139b-4376-b307-cf0a8c2d0d9c\",\"type\":1}}}}" :> Response(200, "", serverStateEmpty)
  @@ "POST /apps/sciencemesh/~tester/api/RemoveGrant {\"ref\":{\"resource_id\":{\"storage_id\":\"storage-id\",\"opaque_id\":\"opaque-id\"},\"path\":\"some/file/path.txt\"},\"g\":{\"grantee\":{\"Id\":{\"UserId\":{\"idp\":\"0.0.0.0:19000\",\"opaque_id\":\"f7fbf8c8-139b-4376-b307-cf0a8c2d0d9c\",\"type\":1}}},\"permissions\":{\"add_grant\":true,\"create_container\":true,\"delete\":true,\"get_path\":true,\"get_quota\":true,\"initiate_file_download\":true,\"initiate_file_upload\":true,\"list_grants\":true,\"list_container\":true,\"list_file_versions\":true,\"list_recycle\":true,\"move\":true,\"remove_grant\":true,\"purge_recycle\":true,\"restore_file_version\":true,\"restore_recycle_item\":true,\"stat\":true,\"update_grant\":true,\"deny_grant\":true}}}" :> Response(200, "", serverStateEmpty)
  @@ "POST /apps/sciencemesh/~tester/api/UpdateGrant {\"ref\":{\"resource_id\":{\"storage_id\":\"storage-id\",\"opaque_id\":\"opaque-id\"},\"path\":\"some/file/path.txt\"},\"g\":{\"grantee\":{\"Id\":{\"UserId\":{\"idp\":\"0.0.0.0:19000\",\"opaque_id\":\"f7fbf8c8-139b-4376-b307-cf0a8c2d0d9c\",\"type\":1}}},\"permissions\":{\"add_grant\":true,\"create_container\":true,\"delete\":true,\"get_path\":true,\"get_quota\":true,\"initiate_file_download\":true,\"initiate_file_upload\":true,\"list_grants\":true,\"list_container\":true,\"list_file_versions\":true,\"list_recycle\":true,\"move\":true,\"remove_grant\":true,\"purge_recycle\":true,\"restore_file_version\":true,\"restore_recycle_item\":true,\"stat\":true,\"update_grant\":true,\"deny_grant\":true}}}" :> Response(200, "", serverStateEmpty)
  @@ "POST /apps/sciencemesh/~tester/api/ListGrants {\"resource_id\":{\"storage_id\":\"storage-id\",\"opaque_id\":\"opaque-id\"},\"path\":\"some/file/path.txt\"}" :> Response(200, "[{\"grantee\":{\"type\":1,\"Id\":{\"UserId\":{\"idp\":\"some-idp\",\"opaque_id\":\"some-opaque-id\",\"type\":1}}},\"permissions\":{\"add_grant\":true,\"create_container\":true,\"delete\":true,\"get_path\":true,\"get_quota\":true,\"initiate_file_download\":true,\"initiate_file_upload\":true,\"list_grants\":true,\"list_container\":true,\"list_file_versions\":true,\"list_recycle\":true,\"move\":true,\"remove_grant\":true,\"purge_recycle\":true,\"restore_file_version\":true,\"restore_recycle_item\":true,\"stat\":true,\"update_grant\":true,\"deny_grant\":true}}]", serverStateEmpty)
  @@ "POST /apps/sciencemesh/~tester/api/GetQuota " :> Response(200, "{\"maxBytes\":456,\"maxFiles\":123}", serverStateEmpty)
  @@ "POST /apps/sciencemesh/~tester/api/CreateReference {\"path\":\"some/file/path.txt\",\"url\":\"http://bing.com/search?q=dotnet\"}" :> Response(200, "", serverStateEmpty)
  @@ "POST /apps/sciencemesh/~tester/api/Shutdown " :> Response(200, "", serverStateEmpty)
  @@ "POST /apps/sciencemesh/~tester/api/SetArbitraryMetadata {\"ref\":{\"resource_id\":{\"storage_id\":\"storage-id\",\"opaque_id\":\"opaque-id\"},\"path\":\"some/file/path.txt\"},\"md\":{\"metadata\":{\"arbi\":\"trary\",\"meta\":\"data\"}}}" :> Response(200, "", serverStateEmpty)
  @@ "POST /apps/sciencemesh/~tester/api/UnsetArbitraryMetadata {\"ref\":{\"resource_id\":{\"storage_id\":\"storage-id\",\"opaque_id\":\"opaque-id\"},\"path\":\"some/file/path.txt\"},\"keys\":[\"arbi\"]}" :> Response(200, "", serverStateEmpty)
  @@ "POST /apps/sciencemesh/~tester/api/ListStorageSpaces [{\"type\":3,\"Term\":{\"Owner\":{\"idp\":\"0.0.0.0:19000\",\"opaque_id\":\"f7fbf8c8-139b-4376-b307-cf0a8c2d0d9c\",\"type\":1}}},{\"type\":2,\"Term\":{\"Id\":{\"opaque_id\":\"opaque-id\"}}},{\"type\":4,\"Term\":{\"SpaceType\":\"home\"}}]" :> Response(200, "\t[{\"opaque\":{\"map\":{\"bar\":{\"value\":\"c2FtYQ==\"},\"foo\":{\"value\":\"c2FtYQ==\"}}},\"id\":{\"opaque_id\":\"some-opaque-storage-space-id\"},\"owner\":{\"id\":{\"idp\":\"some-idp\",\"opaque_id\":\"some-opaque-user-id\",\"type\":1}},\"root\":{\"storage_id\":\"some-storage-ud\",\"opaque_id\":\"some-opaque-root-id\"},\"name\":\"My Storage Space\",\"quota\":{\"quota_max_bytes\":456,\"quota_max_files\":123},\"space_type\":\"home\",\"mtime\":{\"seconds\":1234567890}}]", serverStateEmpty)
  @@ "POST /apps/sciencemesh/~tester/api/CreateStorageSpace {\"opaque\":{\"map\":{\"bar\":{\"value\":\"c2FtYQ==\"},\"foo\":{\"value\":\"c2FtYQ==\"}}},\"owner\":{\"id\":{\"idp\":\"some-idp\",\"opaque_id\":\"some-opaque-user-id\",\"type\":1}},\"type\":\"home\",\"name\":\"My Storage Space\",\"quota\":{\"quota_max_bytes\":456,\"quota_max_files\":123}}" :> Response(200, "{\"opaque\":{\"map\":{\"bar\":{\"value\":\"c2FtYQ==\"},\"foo\":{\"value\":\"c2FtYQ==\"}}},\"owner\":{\"id\":{\"idp\":\"some-idp\",\"opaque_id\":\"some-opaque-user-id\",\"type\":1}},\"type\":\"home\",\"name\":\"My Storage Space\",\"quota\":{\"quota_max_bytes\":456,\"quota_max_files\":123}}", serverStateEmpty)

\* the number of entries written in the literal of responses
NumEntries == 84

\* responses[key]: a Go map lookup, the zero Response for a missing key
Lookup(k) ==
  IF k \in DOMAIN responses THEN responses[k] ELSE ZeroResponse

\* PlainKey that ends with the URL when the body is empty
PlainKeyTrimmed(req) ==
  IF req.body = "" THEN req.method \o " " \o req.url
  ELSE req.method \o " " \o req.url \o " " \o req.body

\* fmt.Sprintf("%s %s %s", r.Method, r.URL, buf.String())
PlainKey(req) == req.method \o " " \o req.url \o " " \o req.body

\* StateKey that names EMPTY when the state is ERROR
StateKeyErrorAsEmpty(plain, state) ==
  plain \o " " \o (IF state = serverStateError THEN serverStateEmpty ELSE state)

\* StateKey that always names the state EMPTY
StateKeyOfEmpty(plain, state) == plain \o " " \o serverStateEmpty

\* StateKey that leaves the state out
StateKeyNoSuffix(plain, state) == plain

\* fmt.Sprintf("%s %s %s %s", r.Method, r.URL, buf.String(), serverState),
\* where plain is the text of the first three
StateKey(plain, state) == plain \o " " \o state

\* FinalKey without the first lookup, by the plain key
FinalKeyAlwaysState(plain, state) == StateKey(plain, state)

\* FinalKey without the state-suffixed second lookup
FinalKeyPlainOnly(plain, state) == plain

\* the local variable key after the lookups
FinalKey(plain, state) ==
  IF Lookup(plain) = ZeroResponse THEN StateKey(plain, state) ELSE plain

\* the response built when both lookups miss
Fallback(k) ==
  Response(200, "response not defined! " \o k, serverStateEmpty)

\* FinalResponse without the lookup by state
FinalResponseOfPlain(plain, state) ==
  IF Lookup(plain) = ZeroResponse THEN Fallback(plain) ELSE Lookup(plain)

\* the local variable response after the two lookups and the fallback
FinalResponse(plain, state) ==
  LET k == FinalKey(plain, state) IN
  IF Lookup(k) = ZeroResponse THEN Fallback(k) ELSE Lookup(k)

\* StoredState under which nothing leaves the recycle bin
StoredStateKeepsBin(k) ==
  IF Lookup(k).newServerState \in {serverStateSubdir, serverStateFileRestored}
  THEN serverStateRecycle
  ELSE Lookup(k).newServerState

\* serverState = responses[key].newServerState
StoredState(k) == Lookup(k).newServerState

\* NextServerState that also replaces EMPTY by ERROR
NextServerStateErrorOnEmpty(k) ==
  IF StoredState(k) \in {"", serverStateEmpty} THEN serverStateError
  ELSE StoredState(k)

\* NextServerState taking the next state from the local response, which is
\* the fallback's EMPTY for an unmatched request
NextServerStateFromResponse(k) ==
  IF Lookup(k) = ZeroResponse THEN serverStateEmpty ELSE StoredState(k)

\* NextServerState without the replacement of the empty string by ERROR
NextServerStateRaw(k) == StoredState(k)

\* if serverState == `` { serverState = serverStateError }
NextServerState(k) ==
  IF StoredState(k) = "" THEN serverStateError ELSE StoredState(k)

\* Logged that forgets the entries logged before
LoggedOnlyLast(log, k) == <<k>>

\* *called = append(*called, key)
Logged(log, k) == Append(log, k)

\* Written that sends no body
WrittenNoBody(resp, k) == [code |-> resp.code, body |-> ""]

\* Written with the status 200 whatever the entry says
WrittenOK(resp, k) == [code |-> 200, body |-> Lookup(k).body]

\* w.WriteHeader(response.code); w.Write([]byte(responses[key].body))
Written(resp, k) == [code |-> resp.code, body |-> Lookup(k).body]

(***************************************************************************)
(* Requests sent to the mock.                                              *)
(***************************************************************************)
Req(method, url, body) == [method |-> method, url |-> url, body |-> body]

einstein == "/apps/sciencemesh/~einstein/api/"
tester == "/apps/sciencemesh/~tester/api/"
testerRef ==
  "{\"resource_id\":{\"storage_id\":\"storage-id\",\"opaque_id\":\"opaque-id\"},\"path\":\"/some/path\"}"

CreateSubdir == Req("POST", einstein \o "CreateDir", "{\"path\":\"/subdir\"}")
CreateNewdir == Req("POST", einstein \o "CreateDir", "{\"path\":\"/newdir\"}")
Unknown == Req("POST", einstein \o "Unknown", "{}")

Requests ==
  { Req("POST", einstein \o "CreateHome", ""),
    CreateSubdir,
    CreateNewdir,
    Req("POST", einstein \o "GetMD", "{\"path\":\"/subdir\"}"),
    Req("POST", einstein \o "GetMD", "{\"path\":\"/newdir\"}"),
    Req("POST", einstein \o "Delete", "{\"path\":\"/subdir\"}"),
    Req("POST", einstein \o "ListRecycle", ""),
    Req("POST", einstein \o "EmptyRecycle", ""),
    Req("POST", einstein \o "AddGrant", "{\"path\":\"/subdir\"}"),
    Req("POST", einstein \o "CreateDir", "{\"path\":\"/subdir\"} HOME"),
    Req("POST", tester \o "CreateDir", testerRef),
    Req("POST", tester \o "GetHome", ""),
    Req("GET", tester \o "GetHome", ""),
    Unknown }

\* the requests of the runs in which handlers overlap
ConcRequests ==
  { CreateSubdir, CreateNewdir, Unknown,
    Req("POST", einstein \o "CreateHome", "") }

(***************************************************************************)
(* State.                                                                  *)
(***************************************************************************)
VARIABLES
  serverState,  \* var serverState: one package-level value for all handlers
  called,       \* called[h]: the slice *called that handler h appends to
  written,      \* written[h]: what handler h wrote to its ResponseWriters
  pc,           \* pc[h]: position of handler h's goroutine in the handler
  key,          \* key[h]: the handler's local variable key
  response,     \* response[h]: the handler's local variable response
  r,            \* r[h]: the request handler h was last called with
  nc,           \* the nextcloud struct: nc.endPoint, once constructed
  printed,      \* standard output of nextcloud.do: one line per call
  wire,         \* requests the adapter handed to an http.Client
  ret           \* what the last adapter operation returned

mockVars == <<serverState, called, written, pc, key, response, r>>
ncVars == <<nc, printed, wire, ret>>
vars == <<serverState, called, written, pc, key, response, r,
          nc, printed, wire, ret>>

\* number of requests received by all handlers together
TotalCalled ==
  LET Sum[h \in 0..NumHandlers] ==
        IF h = 0 THEN 0 ELSE Sum[h - 1] + Len(called[h])
  IN Sum[NumHandlers]

NoNc == [constructed |-> FALSE, endPoint |-> ""]
NoReturn == [op |-> "", val |-> "", err |-> "nil"]
NoRequest == Req("", "", "")

Init ==
  /\ serverState = serverStateEmpty
  /\ called = [h \in Handlers |-> <<>>]
  /\ written = [h \in Handlers |-> <<>>]
  /\ pc = [h \in Handlers |-> "idle"]
  /\ key = [h \in Handlers |-> ""]
  /\ response = [h \in Handlers |-> ZeroResponse]
  /\ r = [h \in Handlers |-> NoRequest]
  /\ nc = NoNc
  /\ printed = <<>>
  /\ wire = <<>>
  /\ ret = NoReturn

(***************************************************************************)
(* The handler of GetNextcloudServerMock, run to completion for one        *)
(* request while no other request is in flight.                            *)
(***************************************************************************)
\* Handle that may look the request up by the state of process start
\* instead of the current one
HandleStale(h, req) ==
  /\ \A g \in Handlers : pc[g] = "idle"
  /\ TotalCalled < MaxCalls
  /\ r' = [r EXCEPT ![h] = req]
  /\ called' = [called EXCEPT ![h] = Logged(@, PlainKey(req))]
  /\ \E state \in {serverState, serverStateEmpty} :
       LET k == FinalKey(PlainKey(req), state)
           resp == FinalResponse(PlainKey(req), state)
       IN /\ serverState' = NextServerState(k)
          /\ written' = [written EXCEPT ![h] = Append(@, Written(resp, k))]
          /\ key' = [key EXCEPT ![h] = k]
          /\ response' = [response EXCEPT ![h] = resp]
  /\ UNCHANGED <<pc, ncVars>>

Handle(h, req) ==
  /\ \A g \in Handlers : pc[g] = "idle"
  /\ TotalCalled < MaxCalls
  /\ r' = [r EXCEPT ![h] = req]
  /\ called' = [called EXCEPT ![h] = Logged(@, PlainKey(req))]
  /\ LET k == FinalKey(PlainKey(req), serverState)
         resp == FinalResponse(PlainKey(req), serverState)
     IN /\ serverState' = NextServerState(k)
        /\ written' = [written EXCEPT ![h] = Append(@, Written(resp, k))]
        /\ key' = [key EXCEPT ![h] = k]
        /\ response' = [response EXCEPT ![h] = resp]
  /\ UNCHANGED <<pc, ncVars>>

Request == \E h \in Handlers, req \in Requests : Handle(h, req)

Next == Request

Spec == Init /\ [][Next]_vars

(***************************************************************************)
(* The same handler, one memory access to serverState per step, for runs   *)
(* in which the requests of different handlers overlap.  net/http serves   *)
(* every request on its own goroutine and the handler takes no lock, so    *)
(* every interleaving of these steps is a possible run.                    *)
(***************************************************************************)
\* lines 171-180: read the body, form the key, log it, first lookup
Receive(h, req) ==
  /\ pc[h] = "idle"
  /\ TotalCalled < MaxCalls
  /\ r' = [r EXCEPT ![h] = req]
  /\ called' = [called EXCEPT ![h] = Logged(@, PlainKey(req))]
  /\ key' = [key EXCEPT ![h] = PlainKey(req)]
  /\ response' = [response EXCEPT ![h] = Lookup(PlainKey(req))]
  /\ pc' = [pc EXCEPT ![h] = "lookup"]
  /\ UNCHANGED <<serverState, written, ncVars>>

\* lines 181-194: on a miss read serverState, second lookup, fallback
ReadState(h) ==
  /\ pc[h] = "lookup"
  /\ LET k == IF response[h] = ZeroResponse
                THEN StateKey(key[h], serverState)
                ELSE key[h]
         found == IF response[h] = ZeroResponse
                    THEN Lookup(k)
                    ELSE response[h]
     IN /\ key' = [key EXCEPT ![h] = k]
        /\ response' = [response EXCEPT ![h] =
                          IF found = ZeroResponse THEN Fallback(k) ELSE found]
  /\ pc' = [pc EXCEPT ![h] = "store"]
  /\ UNCHANGED <<serverState, called, written, r, ncVars>>

\* StoreState that looks the next state up again, by the state it finds
StoreStateRereads(h) ==
  /\ pc[h] = "store"
  /\ serverState' =
       StoredState(FinalKey(called[h][Len(called[h])], serverState))
  /\ pc' = [pc EXCEPT ![h] = "check"]
  /\ UNCHANGED <<called, written, key, response, r, ncVars>>

\* line 195: serverState = responses[key].newServerState
StoreState(h) ==
  /\ pc[h] = "store"
  /\ serverState' = StoredState(key[h])
  /\ pc' = [pc EXCEPT ![h] = "check"]
  /\ UNCHANGED <<called, written, key, response, r, ncVars>>

\* line 196: if serverState == ``
CheckState(h) ==
  /\ pc[h] = "check"
  /\ pc' = [pc EXCEPT ![h] = IF serverState = "" THEN "fix" ELSE "write"]
  /\ UNCHANGED <<serverState, called, written, key, response, r, ncVars>>

\* line 197: serverState = serverStateError
FixState(h) ==
  /\ pc[h] = "fix"
  /\ serverState' = serverStateError
  /\ pc' = [pc EXCEPT ![h] = "write"]
  /\ UNCHANGED <<called, written, key, response, r, ncVars>>

\* lines 199-204: write the status and the body
Respond(h) ==
  /\ pc[h] = "write"
  /\ written' = [written EXCEPT ![h] = Append(@, Written(response[h], key[h]))]
  /\ pc' = [pc EXCEPT ![h] = "idle"]
  /\ UNCHANGED <<serverState, called, key, response, r, ncVars>>

ConcNext ==
  \/ \E h \in Handlers, req \in ConcRequests : Receive(h, req)
  \/ \E h \in Handlers : ReadState(h)
  \/ \E h \in Handlers : StoreState(h)
  \/ \E h \in Handlers : CheckState(h)
  \/ \E h \in Handlers : FixState(h)
  \/ \E h \in Handlers : Respond(h)

SpecConc == Init /\ [][ConcNext]_vars

(***************************************************************************)
(* The adapter: type nextcloud struct { endPoint string } and its          *)
(* operations (nextcloud.go).                                              *)
(***************************************************************************)
\* Config.EndPoint values handed to NewNextcloud
EndPoints ==
  { "http://mock.com/apps/sciencemesh/",
    "http://nextcloud/app/sciencemesh/do.php" }

\* *provider.ResourceId arguments; isNil is the nil pointer
ResourceId(storageId, opaqueId) ==
  [isNil |-> FALSE, storage_id |-> storageId, opaque_id |-> opaqueId]
NilId == [isNil |-> TRUE, storage_id |-> "", opaque_id |-> ""]

\* *provider.Reference arguments
Reference(id, path) == [resource_id |-> id, path |-> path]

\* the reference of the Upload, Download and grant tests
fileRef == Reference(ResourceId("storage-id", "opaque-id"), "some/file/path.txt")

Refs ==
  { Reference(ResourceId("storage-id", "opaque-id"), "/some/path"),
    fileRef,
    Reference(NilId, "/") }
Ids == { ResourceId("storage-id", "opaque-id"), ResourceId("", "opaque-id") }
Paths == { "/some/path", testerRef }
Keys == { "asdf", "some/revision" }
\* *provider.ArbitraryMetadata arguments: the map as key/value pairs in key order
Mds == { <<>>, << <<"foo", "bar">> >>, << <<"arbi", "trary">>, <<"meta", "data">> >> }
\* contents of the io.ReadCloser handed to Upload
Contents == { "shiny!", "" }

\* encoding/json of a string none of whose characters needs escaping
Quote(s) == "\"" \o s \o "\""

\* the fields of a JSON object, the omitted (empty) ones left out
RECURSIVE JoinFields(_)
JoinFields(fields) ==
  IF fields = <<>> THEN ""
  ELSE IF Head(fields) = "" THEN JoinFields(Tail(fields))
  ELSE IF JoinFields(Tail(fields)) = "" THEN Head(fields)
  ELSE Head(fields) \o "," \o JoinFields(Tail(fields))

\* a string field tagged omitempty
StringField(name, s) == IF s = "" THEN "" ELSE Quote(name) \o ":" \o Quote(s)

\* json.Marshal(id) for id *provider.ResourceId
MarshalResourceId(id) ==
  IF id.isNil THEN "null"
  ELSE "{" \o JoinFields(<<StringField("storage_id", id.storage_id),
                           StringField("opaque_id", id.opaque_id)>>) \o "}"

\* json.Marshal(ref) for ref *provider.Reference
MarshalReference(ref) ==
  "{" \o JoinFields(<<IF ref.resource_id.isNil THEN ""
                        ELSE Quote("resource_id") \o ":"
                               \o MarshalResourceId(ref.resource_id),
                      StringField("path", ref.path)>>) \o "}"

\* json.Marshal of a map[string]string, keys in sorted order
RECURSIVE MarshalPairs(_)
MarshalPairs(pairs) ==
  IF pairs = <<>> THEN ""
  ELSE Quote(Head(pairs)[1]) \o ":" \o Quote(Head(pairs)[2])
         \o (IF Tail(pairs) = <<>> THEN "" ELSE "," \o MarshalPairs(Tail(pairs)))

\* json.Marshal(md) for md *provider.ArbitraryMetadata
MarshalMetadata(md) ==
  IF md = <<>> THEN "{}"
  ELSE "{" \o Quote("metadata") \o ":{" \o MarshalPairs(md) \o "}}"

\* one line of standard output written by do
ActionLine(verb, argS) ==
  [line |-> "action", endPoint |-> nc.endPoint, verb |-> verb, argS |-> argS]

\* the line of standard output written by doUpload before it sends
UploadLine ==
  [line |-> "UPLOADING IT TO", endPoint |-> "http://nc/apps/sciencemesh/test",
   verb |-> "", argS |-> ""]

\* number of calls of do so far
OpsCalled == Cardinality({i \in DOMAIN printed : printed[i].line = "action"})

\* func NewNextcloud(c *Config) (storage.FS, error)
NewNextcloud(e) ==
  /\ ~nc.constructed
  /\ nc' = [constructed |-> TRUE, endPoint |-> e]
  /\ UNCHANGED <<mockVars, printed, wire, ret>>

\* do whose text of the arguments depends on the calls made before
DoPadsLater(op, verb, argS, val) ==
  /\ nc.constructed
  /\ ret.err # "panic"
  /\ OpsCalled < MaxOps
  /\ printed' = Append(printed,
                       ActionLine(verb, IF printed = <<>> THEN argS ELSE argS \o " "))
  /\ ret' = [op |-> op, val |-> val, err |-> "nil"]
  /\ UNCHANGED <<mockVars, nc, wire>>

\* do that keeps the verb of the action in the adapter's endpoint
DoKeepsVerb(op, verb, argS, val) ==
  /\ nc.constructed
  /\ ret.err # "panic"
  /\ OpsCalled < MaxOps
  /\ printed' = Append(printed, ActionLine(verb, argS))
  /\ ret' = [op |-> op, val |-> val, err |-> "nil"]
  /\ nc' = [nc EXCEPT !.endPoint = @ \o verb]
  /\ UNCHANGED <<mockVars, wire>>

\* func (nc *nextcloud) do(a Action) (string, error): prints the action and
\* returns ("printed", nil); op hands val and do's error on to its caller
Do(op, verb, argS, val) ==
  /\ nc.constructed
  /\ ret.err # "panic"
  /\ OpsCalled < MaxOps
  /\ printed' = Append(printed, ActionLine(verb, argS))
  /\ ret' = [op |-> op, val |-> val, err |-> "nil"]
  /\ UNCHANGED <<mockVars, nc, wire>>

GetHome == Do("GetHome", "GetHome", "", "printed")
CreateHome == Do("CreateHome", "CreateHome", "", "")
CreateDir(fn) == Do("CreateDir", "CreateDir", fn, "")
Delete(ref) == Do("Delete", "Delete", MarshalReference(ref), "")
Move(oldRef, newRef) == Do("Move", "Move", MarshalReference(newRef), "")

\* the ResourceInfo that GetMD builds
SomeFileMD ==
  [id |-> ResourceId("", "fileid-some-file.txt"), path |-> "some-file.txt",
   type |-> "RESOURCE_TYPE_FILE", etag |-> "some-etag",
   mime_type |-> "application/octet-stream", size |-> 0,
   permission_set |-> {}, mtime |-> 1234567890,
   owner |-> "nil", arbitrary_metadata |-> "nil"]

GetMD(ref, mdKeys) == Do("GetMD", "GetMD", MarshalReference(ref), SomeFileMD)
ListFolder(ref, mdKeys) ==
  Do("ListFolder", "ListFolder", MarshalReference(ref), "nil")
InitiateUpload(ref, uploadLength, metadata) ==
  Do("InitiateUpload", "InitiateUpload", MarshalReference(ref),
     [simple |-> ref.path])

\* the line of standard output written by doUpload after the response
ResponseLine ==
  [line |-> "RESPONSE BODY", endPoint |-> "", verb |-> "", argS |-> ""]

\* the request that doUpload builds: its URL is a literal, and its body is
\* not taken from the reader
UploadRequest(body) ==
  Req("PUT", "http://api.example.com/v1/user", body)

\* func (nc *nextcloud) Upload(ctx, ref, r): doUpload(r), whose result is
\* dropped, then do.  doUpload panics when client.Do fails.
Upload(ref, content, body, sent) ==
  /\ nc.constructed
  /\ ret.err # "panic"
  /\ OpsCalled < MaxOps
  /\ wire' = Append(wire, UploadRequest(body))
  /\ IF sent
       THEN /\ printed' = printed \o <<UploadLine, ResponseLine,
                                       ActionLine("Upload", MarshalReference(ref))>>
            /\ ret' = [op |-> "Upload", val |-> "", err |-> "nil"]
       ELSE /\ printed' = Append(printed, UploadLine)
            /\ ret' = [op |-> "Upload", val |-> "", err |-> "panic"]
  /\ UNCHANGED <<mockVars, nc>>

Download(ref) == Do("Download", "Download", MarshalReference(ref), "nil")
ListRevisions(ref) ==
  Do("ListRevisions", "ListRevisions", MarshalReference(ref), "nil")
DownloadRevision(ref, revisionKey) ==
  Do("DownloadRevision", "DownloadRevision", MarshalReference(ref), "nil")
RestoreRevision(ref, revisionKey) ==
  Do("RestoreRevision", "RestoreRevision", MarshalReference(ref), "")
ListRecycle == Do("ListRecycle", "ListRecycle", "", "nil")
RestoreRecycleItem(itemKey, restoreRef) ==
  Do("RestoreRecycleItem", "RestoreRecycleItem", Quote(restoreRef), "")
PurgeRecycleItem(itemKey) ==
  Do("PurgeRecycleItem", "PurgeRecycleItem", Quote(itemKey), "")
EmptyRecycle == Do("EmptyRecycle", "EmptyRecycle", "", "")
GetPathByID(id) ==
  Do("GetPathByID", "GetPathByID", MarshalResourceId(id), "sorry")
AddGrant(ref, g) == Do("AddGrant", "AddGrant", MarshalReference(ref), "")
RemoveGrant(ref, g) ==
  Do("RemoveGrant", "RemoveGrant", MarshalReference(ref), "")
UpdateGrant(ref, g) ==
  Do("UpdateGrant", "UpdateGrant", MarshalReference(ref), "")
ListGrants(ref) == Do("ListGrants", "ListGrants", MarshalReference(ref), "nil")
GetQuota == Do("GetQuota", "GetQuota", "", <<0, 0>>)
CreateReference(path, targetURI) ==
  Do("CreateReference", "CreateReference", path, "")
Shutdown == Do("Shutdown", "Shutdown", "", "")
SetArbitraryMetadata(ref, md) ==
  Do("SetArbitraryMetadata", "SetArbitraryMetadata", MarshalMetadata(md), "")
UnsetArbitraryMetadata(ref, keys) ==
  Do("UnsetArbitraryMetadata", "UnsetArbitraryMetadata",
     MarshalReference(ref), "")

\* arguments that no operation puts into its request
MdKeys == { <<>>, <<"val1", "val2", "val3">> }
Grants == { "stat-move", "all" }
TargetURIs == { "http://bing.com/search?q=dotnet" }

NcNext ==
  \/ \E e \in EndPoints : NewNextcloud(e)
  \/ GetHome
  \/ CreateHome
  \/ \E fn \in Paths : CreateDir(fn)
  \/ \E ref \in Refs : Delete(ref)
  \/ \E oldRef \in Refs, newRef \in Refs : Move(oldRef, newRef)
  \/ \E ref \in Refs, mdKeys \in MdKeys : GetMD(ref, mdKeys)
  \/ \E ref \in Refs, mdKeys \in MdKeys : ListFolder(ref, mdKeys)
  \/ \E ref \in Refs, md \in Mds : InitiateUpload(ref, 12345, md)
  \/ \E ref \in Refs, content \in Contents, body \in Contents, sent \in BOOLEAN :
       Upload(ref, content, body, sent)
  \/ \E ref \in Refs : Download(ref)
  \/ \E ref \in Refs : ListRevisions(ref)
  \/ \E ref \in Refs, k \in Keys : DownloadRevision(ref, k)
  \/ \E ref \in Refs, k \in Keys : RestoreRevision(ref, k)
  \/ ListRecycle
  \/ \E k \in Keys, p \in Paths : RestoreRecycleItem(k, p)
  \/ \E k \in Keys : PurgeRecycleItem(k)
  \/ EmptyRecycle
  \/ \E id \in Ids : GetPathByID(id)
  \/ \E ref \in Refs, g \in Grants : AddGrant(ref, g)
  \/ \E ref \in Refs, g \in Grants : RemoveGrant(ref, g)
  \/ \E ref \in Refs, g \in Grants : UpdateGrant(ref, g)
  \/ \E ref \in Refs : ListGrants(ref)
  \/ GetQuota
  \/ \E p \in Paths, u \in TargetURIs : CreateReference(p, u)
  \/ Shutdown
  \/ \E ref \in Refs, md \in Mds : SetArbitraryMetadata(ref, md)
  \/ \E ref \in Refs, k \in Keys : UnsetArbitraryMetadata(ref, <<k>>)

SpecNc == Init /\ [][NcNext]_vars

(***************************************************************************)
(* Properties.                                                             *)
(***************************************************************************)
ServerStates ==
  { serverStateError, serverStateEmpty, serverStateHome, serverStateSubdir,
    serverStateNewdir, serverStateSubdirNewdir, serverStateFileRestored,
    serverStateGrantAdded, serverStateGrantUpdated, serverStateRecycle,
    serverStateReference, serverStateMetadata }

\* s occurs in b as a run of consecutive characters
Contains(b, s) ==
  \E i \in 1..(Len(b) + 1 - Len(s)) : SubSeq(b, i, i + Len(s) - 1) = s

\* handler h received a request in this step
Received(h) == Len(called'[h]) = Len(called[h]) + 1
\* the text "METHOD URL BODY" of the request handler h received in this step
Signature(h) == r'[h].method \o " " \o r'[h].url \o " " \o r'[h].body
\* what handler h answered in this step
Answer(h) == written'[h][Len(written'[h])]

\* C1: a request whose plain signature is a key of the table is answered
\* with that entry's status and body and moves the state to that entry's
\* next state, whatever the current state; a request whose plain signature
\* is no key is answered from the entry keyed by the signature, a space
\* and the current state, when there is one.
DispatchOrder ==
  [][\A h \in Handlers : Received(h) =>
       LET sig == Signature(h)
           ext == sig \o " " \o serverState
       IN /\ sig \in DOMAIN responses =>
               /\ Answer(h).code = responses[sig].code
               /\ Answer(h).body = responses[sig].body
               /\ serverState' = responses[sig].newServerState
          /\ (sig \notin DOMAIN responses /\ ext \in DOMAIN responses) =>
               /\ Answer(h).code = responses[ext].code
               /\ Answer(h).body = responses[ext].body
               /\ serverState' = responses[ext].newServerState]_vars

\* a handler answered a state-suffixed entry (CreateDir in EMPTY), then a
\* plain entry outside EMPTY (Delete in SUBDIR), then a state-suffixed one
\* again (ListRecycle in RECYCLE)
DispatchOrderWitness ==
  \E h \in Handlers :
    /\ called[h] = << "POST /apps/sciencemesh/~einstein/api/CreateDir {\"path\":\"/subdir\"}",
                      "POST /apps/sciencemesh/~einstein/api/Delete {\"path\":\"/subdir\"}",
                      "POST /apps/sciencemesh/~einstein/api/ListRecycle " >>
    /\ written[h] = << [code |-> 200, body |-> ""],
                       [code |-> 200, body |-> ""],
                       [code |-> 200, body |-> "[\"/subdir\"]"] >>
    /\ serverState = serverStateRecycle

\* C2: a request with no table entry, plain or state-suffixed, is answered
\* with status 200 and a body that contains the unmatched signature.
UnmatchedEchoesSignature ==
  [][\A h \in Handlers : Received(h) =>
       LET sig == Signature(h)
           ext == sig \o " " \o serverState
       IN (sig \notin DOMAIN responses /\ ext \notin DOMAIN responses) =>
            /\ Answer(h).code = 200
            /\ Contains(Answer(h).body, sig)]_vars

\* C3: a request with no table entry, plain or state-suffixed, leaves the
\* state ERROR from every state, although the response the handler builds
\* for it names EMPTY as its next state.
UnmatchedLeavesError ==
  [][\A h \in Handlers : Received(h) =>
       LET sig == Signature(h)
           ext == sig \o " " \o serverState
       IN (sig \notin DOMAIN responses /\ ext \notin DOMAIN responses) =>
            /\ serverState' = serverStateError
            /\ response'[h].newServerState = serverStateEmpty]_vars

\* an unmatched request was handled while the state was ERROR already
UnmatchedLeavesErrorWitness ==
  /\ serverState = serverStateError
  /\ \E h \in Handlers :
       /\ r[h] = Unknown
       /\ key[h] = "POST /apps/sciencemesh/~einstein/api/Unknown {} ERROR"
       /\ response[h].newServerState = serverStateEmpty

\* C4: every request appends exactly one entry to its handler's call log,
\* the plain signature without state suffix, before the state is read or
\* written and before the response is written; nothing else changes a log.
CallLogAppendOnly ==
  [][\A h \in Handlers :
       /\ (pc[h] = "idle" /\ pc'[h] # "idle") => Received(h)
       /\ \/ called'[h] = called[h]
          \/ /\ called'[h] = Append(called[h], Signature(h))
             /\ pc[h] = "idle" /\ pc'[h] = "lookup"
             /\ serverState' = serverState
             /\ written' = written]_vars

\* one handler logged a plain-matched, a state-matched and an unmatched
\* request, in the order of arrival, and answered all three
CallLogWitness ==
  \E h \in Handlers :
    /\ called[h] = << "POST /apps/sciencemesh/~einstein/api/CreateHome ",
                      "POST /apps/sciencemesh/~einstein/api/CreateDir {\"path\":\"/subdir\"}",
                      "POST /apps/sciencemesh/~einstein/api/Unknown {}" >>
    /\ Len(written[h]) = 3
    /\ serverState = serverStateError

\* the responses and the final state that the table gives for a sequence of
\* signatures replayed from EMPTY
RECURSIVE Replay(_)
Replay(log) ==
  IF log = <<>> THEN [state |-> serverStateEmpty, out |-> <<>>]
  ELSE LET prev == Replay(SubSeq(log, 1, Len(log) - 1))
           sig == log[Len(log)]
           ext == sig \o " " \o prev.state
           entry == IF sig \in DOMAIN responses THEN responses[sig]
                    ELSE IF ext \in DOMAIN responses THEN responses[ext]
                    ELSE Response(200, "", serverStateError)
       IN [state |-> entry.newServerState,
           out |-> Append(prev.out, [code |-> entry.code, body |-> entry.body])]

\* C5: the responses and the final state of a simulator that started in
\* EMPTY are determined by the sequence of requests it received: whenever
\* one handler has received all the requests, its responses and the state
\* are the ones that the replay of its call log gives.
ReplayIsDeterministic ==
  \A h \in Handlers :
    (\A g \in Handlers \ {h} : called[g] = <<>>) =>
      /\ written[h] = Replay(called[h]).out
      /\ serverState = Replay(called[h]).state

\* one handler received three requests, the last two answered by the state
\* that the earlier ones left
ReplayWitness ==
  \E h \in Handlers :
    /\ \A g \in Handlers \ {h} : called[g] = <<>>
    /\ called[h] = << "POST /apps/sciencemesh/~einstein/api/CreateDir {\"path\":\"/subdir\"}",
                      "POST /apps/sciencemesh/~einstein/api/CreateDir {\"path\":\"/newdir\"}",
                      "POST /apps/sciencemesh/~einstein/api/GetMD {\"path\":\"/newdir\"}" >>
    /\ written[h][3] = [code |-> 200, body |-> "{ \"size\": 1 }"]
    /\ serverState = serverStateSubdirNewdir

\* C6: every handler has a simulated state of its own, so the first request
\* of a handler is answered as in EMPTY whatever the other handlers did.
HandlersAreIsolated ==
  \A h \in Handlers : Len(written[h]) >= 1 =>
    LET sig == called[h][1]
        ext == sig \o " " \o serverStateEmpty
    IN /\ sig \in DOMAIN responses =>
            written[h][1] = [code |-> responses[sig].code,
                             body |-> responses[sig].body]
       /\ (sig \notin DOMAIN responses /\ ext \in DOMAIN responses) =>
            written[h][1] = [code |-> responses[ext].code,
                             body |-> responses[ext].body]

\* the final states of the two serial orders of CreateDir /subdir and
\* CreateDir /newdir from EMPTY, read off the table
SerialCreateDirStates ==
  LET sub == "POST /apps/sciencemesh/~einstein/api/CreateDir {\"path\":\"/subdir\"}"
      new == "POST /apps/sciencemesh/~einstein/api/CreateDir {\"path\":\"/newdir\"}"
      afterSub == responses[sub \o " EMPTY"].newServerState
      afterNew == responses[new \o " EMPTY"].newServerState
  IN { responses[new \o " " \o afterSub].newServerState,
       responses[sub \o " " \o afterNew].newServerState }

\* both handlers have finished, one a CreateDir of /subdir and the other a
\* CreateDir of /newdir, and each read the state while it was still EMPTY
BothReadEmpty ==
  \E g, h \in Handlers :
    /\ g # h
    /\ pc[g] = "idle" /\ pc[h] = "idle"
    /\ called[g] = <<"POST /apps/sciencemesh/~einstein/api/CreateDir {\"path\":\"/subdir\"}">>
    /\ called[h] = <<"POST /apps/sciencemesh/~einstein/api/CreateDir {\"path\":\"/newdir\"}">>
    /\ key[g] = "POST /apps/sciencemesh/~einstein/api/CreateDir {\"path\":\"/subdir\"} EMPTY"
    /\ key[h] = "POST /apps/sciencemesh/~einstein/api/CreateDir {\"path\":\"/newdir\"} EMPTY"
    /\ written[g] = <<[code |-> 200, body |-> ""]>>
    /\ written[h] = <<[code |-> 200, body |-> ""]>>
    /\ \A f \in Handlers \ {g, h} : called[f] = <<>>

\* C7: when a CreateDir of /subdir and a CreateDir of /newdir overlap so
\* that both read the state EMPTY, both are answered 200 and the state is
\* left SUBDIR or NEWDIR, which neither serial order ends in.
OverlapIsNotSerial ==
  BothReadEmpty =>
    /\ serverState \in {serverStateSubdir, serverStateNewdir}
    /\ serverState \notin SerialCreateDirStates
    /\ SerialCreateDirStates = {serverStateSubdirNewdir}

\* the two overlapping CreateDir requests have left the state SUBDIR
OverlapWitness == BothReadEmpty /\ serverState = serverStateSubdir

\* C8: the state is EMPTY before the first request and one of the twelve
\* enumerated values, never the empty string, after every request.
StateIsEnumerated ==
  /\ serverState \in ServerStates
  /\ serverState # ""
  /\ TotalCalled = 0 => serverState = serverStateEmpty

\* an unmatched request, whose table lookup gives no next state, was handled
StateIsEnumeratedWitness ==
  \E h \in Handlers :
    /\ Len(written[h]) >= 1
    /\ key[h] \notin DOMAIN responses
    /\ serverState = serverStateError

\* C9: every adapter operation issues exactly one wire request, so each
\* call of an operation makes the simulator's call log one entry longer.
OneRequestPerOperation ==
  [][OpsCalled' = OpsCalled + 1 => TotalCalled' = TotalCalled + 1]_vars

\* C10: CreateDir of the tester reference issues exactly one request, a
\* POST to /apps/sciencemesh/~tester/api/CreateDir with the reference as
\* its body, and returns no error.
CreateDirIssuesOnePost ==
  (/\ ret.op = "CreateDir"
   /\ OpsCalled = 1
   /\ printed[Len(printed)].argS = testerRef) =>
    /\ ret.err = "nil"
    /\ called[1] = <<"POST /apps/sciencemesh/~tester/api/CreateDir " \o testerRef>>

\* C11: Upload of the reference with path some/file/path.txt and content
\* "shiny!" issues exactly one request, a PUT to
\* <end point>~tester/api/Upload/some/file/path.txt whose body is shiny!,
\* and returns no error.
UploadIssuesOnePut ==
  [][(\E body \in Contents, sent \in BOOLEAN :
        Upload(fileRef, "shiny!", body, sent)) =>
       /\ ret'.err = "nil"
       /\ wire' = Append(wire, Req("PUT",
                    nc.endPoint \o "~tester/api/Upload/some/file/path.txt",
                    "shiny!"))]_vars

\* the argument text of the last call of do
LastArgS == printed[Len(printed)].argS

\* C12: GetMD of the tester reference /some/path returns, without error, a
\* ResourceInfo with etag "in-json-etag" and MIME type "in-json-mimetype"
\* whose arbitrary metadata serializes to {"metadata":{"foo":"bar"}}.
GetMDReturnsResponseBody ==
  (ret.op = "GetMD" /\ LastArgS = testerRef) =>
    /\ ret.err = "nil"
    /\ ret.val.etag = "in-json-etag"
    /\ ret.val.mime_type = "in-json-mimetype"
    /\ ret.val.arbitrary_metadata # "nil"
    /\ MarshalMetadata(ret.val.arbitrary_metadata)
         = "{\"metadata\":{\"foo\":\"bar\"}}"

\* C13: ListRevisions of the tester reference /some/path returns, without
\* error, exactly the two revisions of the fixture.
ListRevisionsReturnsFixture ==
  (ret.op = "ListRevisions" /\ LastArgS = testerRef) =>
    /\ ret.err = "nil"
    /\ ret.val # "nil"
    /\ ret.val = << [key |-> "version-12", size |-> 12345, etag |-> "deadb00f"],
                    [key |-> "asdf", size |-> 1235, etag |-> "deadbeef"] >>

\* the status the simulator gives to the einstein request of operation verb
\* with body argS in the current state, 0 when it has no entry for it
EinsteinStatus(verb, argS) ==
  LET sig == "POST " \o einstein \o verb \o " " \o argS
      ext == sig \o " " \o serverState
  IN IF sig \in DOMAIN responses THEN responses[sig].code
     ELSE IF ext \in DOMAIN responses THEN responses[ext].code
     ELSE 0

\* C14: an operation whose request the simulator answers with a status
\* outside 200..299, such as GetMD of "/" in EMPTY (404), returns a non-nil
\* error and no result.
Non2xxIsAnError ==
  (/\ ret.op = "GetMD"
   /\ EinsteinStatus("GetMD", LastArgS) # 0
   /\ EinsteinStatus("GetMD", LastArgS) \notin 200..299) =>
    /\ ret.err # "nil"
    /\ ret.val = "nil"

\* C15: when the request of Upload cannot be sent, Upload returns that
\* error to its caller: it neither panics nor returns nil.
UploadReturnsTransportError ==
  [][(\E ref \in Refs, content \in Contents, body \in Contents :
        Upload(ref, content, body, FALSE)) =>
       /\ ret'.err # "panic"
       /\ ret'.err # "nil"]_vars

\* C16: the request of an operation is built from all of its arguments, so
\* two calls of one operation that differ in one argument never issue the
\* same call; Move names its two references from and to.
EveryArgumentIsSent ==
  [][/\ \A oldRef \in Refs, newRef \in Refs : Move(oldRef, newRef) =>
          /\ Contains(printed'[Len(printed')].argS,
                      Quote("from") \o ":" \o MarshalReference(oldRef))
          /\ Contains(printed'[Len(printed')].argS,
                      Quote("to") \o ":" \o MarshalReference(newRef))
          /\ \A other \in Refs \ {oldRef} : ~Move(other, newRef)
     /\ \A ref \in Refs, k \in Keys : RestoreRevision(ref, k) =>
          \A other \in Keys \ {k} : ~RestoreRevision(ref, other)
     /\ \A ref \in Refs, k \in Keys : DownloadRevision(ref, k) =>
          \A other \in Keys \ {k} : ~DownloadRevision(ref, other)
     /\ \A k \in Keys, p \in Paths : RestoreRecycleItem(k, p) =>
          \A other \in Keys \ {k} : ~RestoreRecycleItem(other, p)
     /\ \A ref \in Refs, g \in Grants : AddGrant(ref, g) =>
          \A other \in Grants \ {g} : ~AddGrant(ref, other)
     /\ \A ref \in Refs, g \in Grants : UpdateGrant(ref, g) =>
          \A other \in Grants \ {g} : ~UpdateGrant(ref, other)
     /\ \A ref \in Refs, g \in Grants : RemoveGrant(ref, g) =>
          \A other \in Grants \ {g} : ~RemoveGrant(ref, other)
     /\ \A ref \in Refs, md \in Mds : SetArbitraryMetadata(ref, md) =>
          \A other \in Refs \ {ref} : ~SetArbitraryMetadata(other, md)]_vars

\* the requests that the tests expect as called[0], one per operation
TestRequests ==
  {
    Req("POST", "/apps/sciencemesh/~tester/api/GetHome", ""),
    Req("POST", "/apps/sciencemesh/~tester/api/CreateHome", ""),
    Req("POST", "/apps/sciencemesh/~tester/api/CreateDir", "{\"resource_id\":{\"storage_id\":\"storage-id\",\"opaque_id\":\"opaque-id\"},\"path\":\"/some/path\"}"),
    Req("POST", "/apps/sciencemesh/~tester/api/Delete", "{\"resource_id\":{\"storage_id\":\"storage-id\",\"opaque_id\":\"opaque-id\"},\"path\":\"/some/path\"}"),
    Req("POST", "/apps/sciencemesh/~tester/api/Move", "{\"from\":{\"resource_id\":{\"storage_id\":\"storage-id-1\",\"opaque_id\":\"opaque-id-1\"},\"path\":\"/some/old/path\"},\"to\":{\"resource_id\":{\"storage_id\":\"storage-id-2\",\"opaque_id\":\"opaque-id-2\"},\"path\":\"/some/new/path\"}}"),
    Req("POST", "/apps/sciencemesh/~tester/api/GetMD", "{\"ref\":{\"resource_id\":{\"storage_id\":\"storage-id\",\"opaque_id\":\"opaque-id\"},\"path\":\"/some/path\"},\"mdKeys\":[\"val1\",\"val2\",\"val3\"]}"),
    Req("POST", "/apps/sciencemesh/~tester/api/ListFolder", "{\"ref\":{\"resource_id\":{\"storage_id\":\"storage-id\",\"opaque_id\":\"opaque-id\"},\"path\":\"/some/path\"},\"mdKeys\":[\"val1\",\"val2\",\"val3\"]}"),
    Req("POST", "/apps/sciencemesh/~tester/api/InitiateUpload", "{\"ref\":{\"resource_id\":{\"storage_id\":\"storage-id\",\"opaque_id\":\"opaque-id\"},\"path\":\"/some/path\"},\"uploadLength\":12345,\"metadata\":{\"key1\":\"val1\",\"key2\":\"val2\",\"key3\":\"val3\"}}"),
    Req("PUT", "/apps/sciencemesh/~tester/api/Upload/some/file/path.txt", "shiny!"),
    Req("GET", "/apps/sciencemesh/~tester/api/Download/some/file/path.txt", ""),
    Req("POST", "/apps/sciencemesh/~tester/api/ListRevisions", "{\"resource_id\":{\"storage_id\":\"storage-id\",\"opaque_id\":\"opaque-id\"},\"path\":\"/some/path\"}"),
    Req("GET", "/apps/sciencemesh/~tester/api/DownloadRevision/some%2Frevision/some/file/path.txt", ""),
    Req("POST", "/apps/sciencemesh/~tester/api/RestoreRevision", "{\"path\":\"some/file/path.txt\",\"key\":\"asdf\"}"),
    Req("POST", "/apps/sciencemesh/~tester/api/ListRecycle", "{\"path\":\"/some/file.txt\",\"key\":\"asdf\"}"),
    Req("POST", "/apps/sciencemesh/~tester/api/RestoreRecycleItem", "{\"key\":\"asdf\",\"path\":\"original/location/when/deleted.txt\",\"restoreRef\":{\"resource_id\":{\"storage_id\":\"storage-id\",\"opaque_id\":\"opaque-id\"},\"path\":\"some/file/path.txt\"}}"),
    Req("POST", "/apps/sciencemesh/~tester/api/PurgeRecycleItem", "{\"key\":\"asdf\",\"path\":\"original/location/when/deleted.txt\"}"),
    Req("POST", "/apps/sciencemesh/~tester/api/EmptyRecycle", ""),
    Req("POST", "/apps/sciencemesh/~tester/api/GetPathByID", "{\"storage_id\":\"storage-id\",\"opaque_id\":\"opaque-id\"}"),
    Req("POST", "/apps/sciencemesh/~tester/api/AddGrant", "{\"resource_id\":{\"storage_id\":\"storage-id\",\"opaque_id\":\"opaque-id\"},\"path\":\"some/file/path.txt\"}"),
    Req("POST", "/apps/sciencemesh/~tester/api/DenyGrant", "{\"resource_id\":{\"storage_id\":\"storage-id\",\"opaque_id\":\"opaque-id\"},\"path\":\"some/file/path.txt\"}"),
    Req("POST", "/apps/sciencemesh/~tester/api/RemoveGrant", "{\"resource_id\":{\"storage_id\":\"storage-id\",\"opaque_id\":\"opaque-id\"},\"path\":\"some/file/path.txt\"}"),
    Req("POST", "/apps/sciencemesh/~tester/api/UpdateGrant", "{\"resource_id\":{\"storage_id\":\"storage-id\",\"opaque_id\":\"opaque-id\"},\"path\":\"some/file/path.txt\"}") }

\* the simulator replaying the requests that the tests expect
TestNext == \E h \in Handlers, req \in TestRequests : Handle(h, req)

SpecTests == Init /\ [][TestNext]_vars

\* C17: every call signature that the tests expect is a key of the table:
\* replayed in any order from EMPTY, each is answered from a table entry
\* and the state never becomes ERROR.
TestSignaturesAreKeys ==
  /\ serverState # serverStateError
  /\ \A h \in Handlers : \A i \in DOMAIN called[h] :
       called[h][i] \in DOMAIN responses


\* C18: an operation that returns a value returns the value of its response
\* body, without error: GetHome "yes we are", GetPathByID
\* "the/path/for/that/id.txt", InitiateUpload the map of the ~tester fixture.
ValueOfResponseBodyIsReturned ==
  /\ ret.op = "GetHome" =>
       /\ ret.err = "nil"
       /\ ret.val = "yes we are"
  /\ ret.op = "GetPathByID" =>
       /\ ret.err = "nil"
       /\ ret.val = "the/path/for/that/id.txt"
  /\ ret.op = "InitiateUpload" =>
       /\ ret.err = "nil"
       /\ ret.val = [not |-> "sure", what |-> "should be", returned |-> "here"]

\* C19: Download and DownloadRevision each send one GET request with an empty
\* body and return, without error, a stream that is not nil.
DownloadIssuesOneGet ==
  [][(\/ \E ref \in Refs : Download(ref)
      \/ \E ref \in Refs, k \in Keys : DownloadRevision(ref, k)) =>
       /\ ret'.err = "nil"
       /\ ret'.val # "nil"
       /\ Len(wire') = Len(wire) + 1
       /\ wire'[Len(wire')].method = "GET"
       /\ wire'[Len(wire')].body = ""]_vars

\* C20: the adapter is stateless.  No operation changes the endpoint of a
\* constructed adapter, every action is addressed to that endpoint, and an
\* operation without arguments has the same outcome whatever ran before it.
AdapterIsStateless ==
  [][/\ nc.constructed => nc' = nc
     /\ \A i \in (Len(printed) + 1)..Len(printed') :
          printed'[i].line = "action" => printed'[i].endPoint = nc.endPoint
     /\ GetHome =>
          /\ ret' = [op |-> "GetHome", val |-> "printed", err |-> "nil"]
          /\ printed' = Append(printed, ActionLine("GetHome", ""))
     /\ ListRecycle =>
          /\ ret' = [op |-> "ListRecycle", val |-> "nil", err |-> "nil"]
          /\ printed' = Append(printed, ActionLine("ListRecycle", ""))
     /\ \A id \in Ids : GetPathByID(id) =>
          /\ ret' = [op |-> "GetPathByID", val |-> "sorry", err |-> "nil"]
          /\ printed' = Append(printed,
                               ActionLine("GetPathByID", MarshalResourceId(id)))]_vars

\* GetHome has run after a Move on the same adapter
AdapterIsStatelessWitness ==
  /\ nc.constructed
  /\ Len(printed) = 2
  /\ printed[1].verb = "Move"
  /\ printed[2] = ActionLine("GetHome", "")
  /\ printed[2].endPoint = nc.endPoint
  /\ ret.op = "GetHome"
  /\ ret.val = "printed"


\* C21: the table selects at most one entry per plain signature and state:
\* no key is written twice, and no key is also a key when a space and a
\* state are added to it, so a request answered by its plain signature has
\* no state-dependent entry that the first lookup hides.  The table does not
\* change: its keys are examined before the first request.
TableIsUnambiguous ==
  /\ TotalCalled = 0 =>
       /\ Cardinality(DOMAIN responses) = NumEntries
       /\ \A k \in DOMAIN responses, s \in ServerStates :
            StateKey(k, s) \notin DOMAIN responses
  /\ \A h \in Handlers :
       (key[h] = PlainKey(r[h]) /\ key[h] \in DOMAIN responses) =>
         \A s \in ServerStates :
           StateKey(PlainKey(r[h]), s) \notin DOMAIN responses

\* one handler was answered by a plain key, the other by a key with the state
TableIsUnambiguousWitness ==
  /\ key[1] = "POST /apps/sciencemesh/~einstein/api/Delete {\"path\":\"/subdir\"}"
  /\ key[1] \in DOMAIN responses
  /\ key[2] = "POST /apps/sciencemesh/~einstein/api/ListRecycle  RECYCLE"
  /\ key[2] \in DOMAIN responses
  /\ written[2] = << [code |-> 200, body |-> "[\"/subdir\"]"] >>


\* the action that do printed in this step
LastAction == printed'[Len(printed')]
\* the call that an operation makes for verb and the text of its argument
Call(verb, text) ==
  [line |-> "action", endPoint |-> nc.endPoint, verb |-> verb, argS |-> text]

CreateDirCommutes ==
  [][\A h \in Handlers : Received(h) =>
       /\ (/\ Signature(h) = PlainKey(CreateSubdir)
           /\ serverState \in {serverStateEmpty, serverStateHome}) =>
            /\ Answer(h).code = 200
            /\ serverState' = serverStateSubdir
       /\ (/\ Signature(h) = PlainKey(CreateNewdir)
           /\ serverState \in {serverStateEmpty, serverStateHome}) =>
            /\ Answer(h).code = 200
            /\ serverState' = serverStateNewdir
       /\ (/\ Signature(h) = PlainKey(CreateNewdir)
           /\ serverState = serverStateSubdir) =>
            /\ Answer(h).code = 200
            /\ serverState' = serverStateSubdirNewdir
       /\ (/\ Signature(h) = PlainKey(CreateSubdir)
           /\ serverState = serverStateNewdir) =>
            /\ Answer(h).code = 200
            /\ serverState' = serverStateSubdirNewdir]_vars

\* from HOME, /newdir and then /subdir were created
CreateDirCommutesWitness ==
  /\ called[1] = << "POST /apps/sciencemesh/~einstein/api/CreateHome ",
                    PlainKey(CreateNewdir), PlainKey(CreateSubdir) >>
  /\ written[1] = << [code |-> 200, body |-> ""], [code |-> 200, body |-> ""],
                     [code |-> 200, body |-> ""] >>
  /\ serverState = serverStateSubdirNewdir


\* C24: every entry of the table names a next state that is neither empty
\* nor ERROR, so the simulator is in ERROR after a request only if neither
\* the request's signature nor the signature with the state it was received
\* in is a key of the table.
ErrorOnlyWhenUnmatched ==
  [][/\ \A k \in DOMAIN responses :
          responses[k].newServerState \notin {"", serverStateError}
     /\ \A h \in Handlers :
          (Received(h) /\ serverState' = serverStateError) =>
            /\ Signature(h) \notin DOMAIN responses
            /\ StateKey(Signature(h), serverState) \notin DOMAIN responses]_vars

\* CreateDir of /subdir, which has entries for other states, was received in
\* RECYCLE
ErrorOnlyWhenUnmatchedWitness ==
  /\ called[1] = << "POST /apps/sciencemesh/~einstein/api/Delete {\"path\":\"/subdir\"}" >>
  /\ called[2] = << PlainKey(CreateSubdir) >>
  /\ key[2] = StateKey(PlainKey(CreateSubdir), serverStateRecycle)
  /\ serverState = serverStateError


\* the GetMD requests of the directories
GetMDSubdir == Req("POST", einstein \o "GetMD", "{\"path\":\"/subdir\"}")
GetMDNewdir == Req("POST", einstein \o "GetMD", "{\"path\":\"/newdir\"}")

\* the state that the table gives after req was received in state s
StateAfter(req, s) == responses[StateKey(PlainKey(req), s)].newServerState

\* C25: a created directory is visible.  In EMPTY, GetMD of /subdir and of
\* /newdir return 404; in the state that follows a CreateDir of /subdir
\* received in EMPTY, HOME or NEWDIR, GetMD of /subdir returns 200, and in
\* the state that follows a CreateDir of /newdir received in EMPTY, HOME or
\* SUBDIR, GetMD of /newdir returns 200.
CreatedDirIsVisible ==
  [][\A h \in Handlers : Received(h) =>
       /\ (/\ Signature(h) \in {PlainKey(GetMDSubdir), PlainKey(GetMDNewdir)}
           /\ serverState = serverStateEmpty) =>
            Answer(h).code = 404
       /\ (/\ Signature(h) = PlainKey(GetMDSubdir)
           /\ \E s \in {serverStateEmpty, serverStateHome, serverStateNewdir} :
                serverState = StateAfter(CreateSubdir, s)) =>
            Answer(h).code = 200
       /\ (/\ Signature(h) = PlainKey(GetMDNewdir)
           /\ \E s \in {serverStateEmpty, serverStateHome, serverStateSubdir} :
                serverState = StateAfter(CreateNewdir, s)) =>
            Answer(h).code = 200]_vars

\* /subdir was created next to /newdir and then read
CreatedDirIsVisibleWitness ==
  /\ called[1] = << PlainKey(CreateNewdir), PlainKey(CreateSubdir),
                    PlainKey(GetMDSubdir) >>
  /\ written[1] = << [code |-> 200, body |-> ""], [code |-> 200, body |-> ""],
                     [code |-> 200, body |-> "{ \"size\": 1 }"] >>


\* the requests that only read
ReadOnlyURLs ==
  { einstein \o verb :
      verb \in {"GetMD", "ListFolder", "ListGrants", "ListRecycle", "ListRevisions"} }

\* C26: a request that only reads (GetMD, ListFolder, ListGrants, ListRecycle
\* or ListRevisions) and is answered from an entry of the table leaves the
\* state as it was before the request.
ReadOnlyKeepsState ==
  [][\A h \in Handlers :
       (/\ Received(h)
        /\ r'[h].url \in ReadOnlyURLs
        /\ key'[h] \in DOMAIN responses) =>
         serverState' = serverState]_vars

\* the state in which the last request of log was received
StateBeforeLast(log) == Replay(SubSeq(log, 1, Len(log) - 1)).state

\* C27: metadata reads are repeatable: when a simulator started in EMPTY
\* receives the same GetMD request twice in a row and the first of the two
\* is answered from the table, both are answered with the same status and
\* body.
GetMDIsRepeatable ==
  \A h \in Handlers :
    LET log == called[h]
        n == Len(log)
    IN (/\ \A g \in Handlers \ {h} : called[g] = <<>>
        /\ n >= 2
        /\ log[n] = log[n - 1]
        /\ log[n] \in {PlainKey(GetMDSubdir), PlainKey(GetMDNewdir)}
        /\ StateKey(log[n - 1], StateBeforeLast(SubSeq(log, 1, n - 1)))
             \in DOMAIN responses) =>
         written[h][n] = written[h][n - 1]


\* the requests of the recycle bin
DeleteSubdir == Req("POST", einstein \o "Delete", "{\"path\":\"/subdir\"}")
ListRecycleReq == Req("POST", einstein \o "ListRecycle", "")
EmptyRecycleReq == Req("POST", einstein \o "EmptyRecycle", "")

\* C28: Delete moves the entry to the recycle bin.  A Delete of /subdir
\* returns 200 from every state and gives RECYCLE; in RECYCLE a GetMD of
\* /subdir returns 404, a ListRecycle returns ["/subdir"], and both leave
\* the state RECYCLE, so this holds for any number of them.
DeleteMovesToRecycle ==
  [][\A h \in Handlers : Received(h) =>
       /\ Signature(h) = PlainKey(DeleteSubdir) =>
            /\ Answer(h).code = 200
            /\ serverState' = serverStateRecycle
       /\ (/\ Signature(h) = PlainKey(GetMDSubdir)
           /\ serverState = serverStateRecycle) =>
            /\ Answer(h).code = 404
            /\ serverState' = serverStateRecycle
       /\ (/\ Signature(h) = PlainKey(ListRecycleReq)
           /\ serverState = serverStateRecycle) =>
            /\ Answer(h) = [code |-> 200, body |-> "[\"/subdir\"]"]
            /\ serverState' = serverStateRecycle]_vars

\* after the Delete, the bin was listed and the directory looked for
DeleteMovesToRecycleWitness ==
  /\ called[1] = << PlainKey(DeleteSubdir), PlainKey(ListRecycleReq),
                    PlainKey(GetMDSubdir) >>
  /\ written[1] = << [code |-> 200, body |-> ""],
                     [code |-> 200, body |-> "[\"/subdir\"]"],
                     [code |-> 404, body |-> ""] >>
  /\ serverState = serverStateRecycle


\* C30: the simulator can always be reset.  From every state, ERROR
\* included, an EmptyRecycle request returns 200 and gives EMPTY, and a
\* ListRecycle request received in EMPTY returns [].
EmptyRecycleResets ==
  [][\A h \in Handlers : Received(h) =>
       /\ Signature(h) = "POST /apps/sciencemesh/~einstein/api/EmptyRecycle " =>
            /\ Answer(h).code = 200
            /\ serverState' = serverStateEmpty
       /\ (/\ Signature(h) = "POST /apps/sciencemesh/~einstein/api/ListRecycle "
           /\ serverState = serverStateEmpty) =>
            /\ Answer(h) = [code |-> 200, body |-> "[]"]
            /\ serverState' = serverStateEmpty]_vars

\* the simulator was reset from ERROR and the bin listed
EmptyRecycleResetsWitness ==
  /\ called[1] = << PlainKey(Unknown), PlainKey(EmptyRecycleReq),
                    PlainKey(ListRecycleReq) >>
  /\ written[1][2] = [code |-> 200, body |-> ""]
  /\ written[1][3] = [code |-> 200, body |-> "[]"]
  /\ serverState = serverStateEmpty


\* the requests that restore from the recycle bin, and the GetMD of the
\* restored directory
RestoreNull == Req("POST", einstein \o "RestoreRecycleItem", "null")
RestoreSubdirRestored ==
  Req("POST", einstein \o "RestoreRecycleItem", "{\"path\":\"/subdirRestored\"}")
GetMDSubdirRestored ==
  Req("POST", einstein \o "GetMD", "{\"path\":\"/subdirRestored\"}")

RecycleRequests ==
  { CreateSubdir, DeleteSubdir, RestoreNull, RestoreSubdirRestored,
    GetMDSubdir, GetMDSubdirRestored, ListRecycleReq, EmptyRecycleReq }

\* the simulator receiving the requests of the recycle bin
RecycleNext == \E h \in Handlers, req \in RecycleRequests : Handle(h, req)

SpecRecycle == Init /\ [][RecycleNext]_vars

\* C29: restore undoes delete.  A RestoreRecycleItem with body null received
\* after a Delete of /subdir returns 200, and the GetMD of /subdir that
\* follows it returns 200; the GetMD of /subdirRestored that follows a
\* RestoreRecycleItem with body {"path":"/subdirRestored"} returns 200,
\* whereas it returns 404 in EMPTY, SUBDIR and RECYCLE.
RestoreUndoesDelete ==
  [][\A h \in Handlers : Received(h) =>
       /\ (/\ Signature(h) = "POST /apps/sciencemesh/~einstein/api/RestoreRecycleItem null"
           /\ serverState = serverStateRecycle) =>
            /\ Answer(h).code = 200
            /\ serverState' = serverStateSubdir
       /\ (/\ Signature(h) = "POST /apps/sciencemesh/~einstein/api/GetMD {\"path\":\"/subdir\"}"
           /\ serverState = serverStateSubdir) =>
            Answer(h).code = 200
       /\ Signature(h) = "POST /apps/sciencemesh/~einstein/api/RestoreRecycleItem {\"path\":\"/subdirRestored\"}" =>
            /\ Answer(h).code = 200
            /\ serverState' = serverStateFileRestored
       /\ (/\ Signature(h) = "POST /apps/sciencemesh/~einstein/api/GetMD {\"path\":\"/subdirRestored\"}"
           /\ serverState = serverStateFileRestored) =>
            Answer(h).code = 200
       /\ (/\ Signature(h) = "POST /apps/sciencemesh/~einstein/api/GetMD {\"path\":\"/subdirRestored\"}"
           /\ serverState \in {serverStateEmpty, serverStateSubdir, serverStateRecycle}) =>
            Answer(h).code = 404]_vars

\* /subdir was deleted, restored and found again
RestoreUndoesDeleteWitness ==
  /\ called[1] = << PlainKey(DeleteSubdir), PlainKey(RestoreNull),
                    PlainKey(GetMDSubdir) >>
  /\ written[1] = << [code |-> 200, body |-> ""], [code |-> 200, body |-> ""],
                     [code |-> 200, body |-> "{ \"size\": 1 }"] >>


\* the requests about the grants of /subdir
AddGrantSubdir == Req("POST", einstein \o "AddGrant", "{\"path\":\"/subdir\"}")
UpdateGrantSubdir == Req("POST", einstein \o "UpdateGrant", "{\"path\":\"/subdir\"}")
RemoveGrantSubdir == Req("POST", einstein \o "RemoveGrant", "{\"path\":\"/subdir\"}")
ListGrantsSubdir == Req("POST", einstein \o "ListGrants", "{\"path\":\"/subdir\"}")

GrantRequests ==
  { CreateSubdir, AddGrantSubdir, UpdateGrantSubdir, RemoveGrantSubdir,
    ListGrantsSubdir, Unknown }

\* the simulator receiving the requests about grants
GrantNext == \E h \in Handlers, req \in GrantRequests : Handle(h, req)

SpecGrants == Init /\ [][GrantNext]_vars

\* the number of places of b at which s occurs
Occurrences(b, s) ==
  Cardinality({i \in 1..(Len(b) + 1 - Len(s)) : SubSeq(b, i, i + Len(s) - 1) = s})

\* C31: update replaces a grant instead of adding one.  The ListGrants that
\* follows an AddGrant on /subdir returns one grant, with delete false; the
\* ListGrants that follows an AddGrant and then an UpdateGrant returns one
\* grant, with delete true.
UpdateReplacesGrant ==
  [][\A h \in Handlers : Received(h) =>
       /\ Signature(h) = "POST /apps/sciencemesh/~einstein/api/AddGrant {\"path\":\"/subdir\"}" =>
            /\ Answer(h).code = 200
            /\ serverState' = serverStateGrantAdded
       /\ (/\ Signature(h) = "POST /apps/sciencemesh/~einstein/api/ListGrants {\"path\":\"/subdir\"}"
           /\ serverState = serverStateGrantAdded) =>
            /\ Answer(h).code = 200
            /\ Occurrences(Answer(h).body, "{") = 1
            /\ Contains(Answer(h).body, "\"delete\": false")
       /\ (/\ Signature(h) = "POST /apps/sciencemesh/~einstein/api/UpdateGrant {\"path\":\"/subdir\"}"
           /\ serverState = serverStateGrantAdded) =>
            /\ Answer(h).code = 200
            /\ serverState' = serverStateGrantUpdated
       /\ (/\ Signature(h) = "POST /apps/sciencemesh/~einstein/api/ListGrants {\"path\":\"/subdir\"}"
           /\ serverState = serverStateGrantUpdated) =>
            /\ Answer(h).code = 200
            /\ Occurrences(Answer(h).body, "{") = 1
            /\ Contains(Answer(h).body, "\"delete\": true")]_vars

\* the grant was added, updated and listed
UpdateReplacesGrantWitness ==
  /\ called[1] = << PlainKey(AddGrantSubdir), PlainKey(UpdateGrantSubdir),
                    PlainKey(ListGrantsSubdir) >>
  /\ written[1][3] =
       [code |-> 200, body |-> "[ { \"stat\": true, \"move\": true, \"delete\": true } ]"]

\* C32: remove takes the grant away: the ListGrants on /subdir that follows
\* an AddGrant and then a RemoveGrant on /subdir returns 200 with an empty
\* list.
RemoveTakesGrantAway ==
  [][\A h \in Handlers :
       (/\ Received(h)
        /\ Signature(h) = PlainKey(ListGrantsSubdir)
        /\ serverState = StateAfter(RemoveGrantSubdir, serverStateGrantAdded)) =>
         Answer(h) = [code |-> 200, body |-> "[]"]]_vars


\* the requests whose signature has entries with a state only
GetMDRoot == Req("POST", einstein \o "GetMD", "{\"path\":\"/\"}")
GetMDVersionedFile == Req("POST", einstein \o "GetMD", "{\"path\":\"/versionedFile\"}")
ListFolderShares == Req("POST", einstein \o "ListFolder", "{\"path\":\"/Shares\"}")
ListRevisionsReq ==
  Req("POST", einstein \o "ListRevisions", "{\"path\":\"/versionedFile\"}")

StateOnlyRequests ==
  { CreateSubdir, CreateNewdir, GetMDRoot, GetMDSubdir, GetMDNewdir,
    GetMDSubdirRestored, GetMDVersionedFile, ListFolderShares,
    ListGrantsSubdir, ListRecycleReq, ListRevisionsReq, RemoveGrantSubdir }

ErrorRequests == StateOnlyRequests \cup { Unknown, EmptyRecycleReq }

\* the simulator receiving requests in and out of ERROR
ErrorNext == \E h \in Handlers, req \in ErrorRequests : Handle(h, req)

SpecError == Init /\ [][ErrorNext]_vars

\* C33: ERROR is left only through entries without a state.  In ERROR a
\* request whose signature has entries with a state only is unmatched, is
\* answered 200 and leaves the state ERROR; the state changes from ERROR
\* only by a request whose plain signature is a key of the table.
ErrorIsLeftByPlainKeys ==
  [][\A h \in Handlers : (Received(h) /\ serverState = serverStateError) =>
       /\ Signature(h) \in {PlainKey(req) : req \in StateOnlyRequests} =>
            /\ Signature(h) \notin DOMAIN responses
            /\ key'[h] \notin DOMAIN responses
            /\ Answer(h).code = 200
            /\ serverState' = serverStateError
       /\ serverState' # serverStateError =>
            Signature(h) \in DOMAIN responses]_vars

\* in ERROR, a GetMD and a ListRecycle were received
ErrorIsLeftByPlainKeysWitness ==
  /\ called[1] = << PlainKey(Unknown), PlainKey(GetMDSubdir),
                    PlainKey(ListRecycleReq) >>
  /\ written[1][2] = [code |-> 200, body |-> ""]
  /\ written[1][3] = [code |-> 200, body |-> ""]
  /\ serverState = serverStateError


\* the last characters of k are suf
EndsWith(k, suf) ==
  /\ Len(k) >= Len(suf)
  /\ SubSeq(k, Len(k) + 1 - Len(suf), Len(k)) = suf

\* C34: an entry whose key is a signature, a space and a state answers a
\* request only when that state is the current one: a request answered from
\* an entry whose key ends with a state was received in that state.
StateEntryNeedsItsState ==
  [][\A h \in Handlers :
       (Received(h) /\ key'[h] \in DOMAIN responses) =>
         \A s \in ServerStates :
           EndsWith(key'[h], " " \o s) => serverState = s]_vars

\* the first characters of k are pre
StartsWith(k, pre) ==
  /\ Len(k) >= Len(pre)
  /\ SubSeq(k, 1, Len(pre)) = pre

\* k is the signature of a request to the API of user tester
IsTesterKey(k) ==
  \E method \in {"GET", "POST", "PUT"} : StartsWith(k, method \o " " \o tester)

\* C35: the fixtures of user tester do not depend on the order of the tests.
\* No key of the table for ~tester ends with a state, and a request whose
\* signature is such a key is answered with that entry's status and body in
\* every state.  The table does not change: its keys are examined in the
\* first step.
TesterIsOrderIndependent ==
  [][/\ TotalCalled = 0 =>
          \A k \in DOMAIN responses :
            IsTesterKey(k) => \A s \in ServerStates : ~EndsWith(k, " " \o s)
     /\ \A h \in Handlers :
          (/\ Received(h)
           /\ Signature(h) \in DOMAIN responses
           /\ IsTesterKey(Signature(h))) =>
            /\ Answer(h).code = responses[Signature(h)].code
            /\ Answer(h).body = responses[Signature(h)].body]_vars

\* GetHome of tester was answered while the simulator was in ERROR
TesterIsOrderIndependentWitness ==
  /\ called[1] = << PlainKey(Unknown), "POST /apps/sciencemesh/~tester/api/GetHome " >>
  /\ written[1][2] = [code |-> 200, body |-> "yes we are"]
  /\ serverState = serverStateHome


\* the request that restores a revision of /versionedFile
RestoreRevisionReq ==
  Req("POST", einstein \o "RestoreRevision", "{\"path\":\"/versionedFile\"}")

RevisionRequests ==
  { RestoreRevisionReq, ListRevisionsReq, GetMDVersionedFile, EmptyRecycleReq,
    Unknown }

\* the simulator receiving the requests about revisions
RevisionNext == \E h \in Handlers, req \in RevisionRequests : Handle(h, req)

SpecRevisions == Init /\ [][RevisionNext]_vars

\* C36: restoring a revision is observable and succeeds.  ListRevisions of
\* /versionedFile is answered with a status from 200 to 299, with [1] in
\* EMPTY and with [1, 2] in the state that follows a RestoreRevision of
\* /versionedFile, and leaves the state as it was.
ListRevisionsSucceeds ==
  [][\A h \in Handlers :
       (Received(h) /\ Signature(h) = PlainKey(ListRevisionsReq)) =>
         /\ serverState = serverStateEmpty =>
              /\ Answer(h).code \in 200..299
              /\ Answer(h).body = "[1]"
              /\ serverState' = serverState
         /\ serverState = responses[PlainKey(RestoreRevisionReq)].newServerState =>
              /\ Answer(h).code \in 200..299
              /\ Answer(h).body = "[1, 2]"
              /\ serverState' = serverState]_vars

\* C37: Upload sends its request to the configured end point: the URL of the
\* PUT request of Upload starts with the end point the adapter was
\* constructed with and ends with the path of the reference.
UploadGoesToEndPoint ==
  [][\A ref \in Refs :
       (\E content \in Contents, body \in Contents, sent \in BOOLEAN :
          Upload(ref, content, body, sent)) =>
         /\ Len(wire') = Len(wire) + 1
         /\ wire'[Len(wire')].method = "PUT"
         /\ StartsWith(wire'[Len(wire')].url, nc.endPoint)
         /\ EndsWith(wire'[Len(wire')].url, ref.path)]_vars

====
